---------------------------- MODULE Spec2Model ----------------------------
(***************************************************************************)
(* The Apriori pipeline of question_2.py: apriori_L1, apriori_L2,          *)
(* apriori_C3_from_L2, apriori_L3, top5_part_d and top5_part_e, run in the *)
(* order of main().                                                        *)
(*                                                                         *)
(* Items are the integers 1..NumItems; their order stands for Python's     *)
(* total order on the item strings.  A defaultdict(int) is a function      *)
(* whose DOMAIN is the set of keys present; reading a missing key inserts  *)
(* it with value 0 (Touch).  A float confidence n/d is the exact fraction  *)
(* in lowest terms (Ratio): for supports below 2^26 IEEE division maps     *)
(* different fractions to different doubles and keeps their order.         *)
(***************************************************************************)
EXTENDS Integers, Sequences, FiniteSets, TLC

\* Bounds of the model.
NumItems == 3
MaxTx == 3
MaxMinSupport == 2
MaxTopK == 2

Items == 1..NumItems

\* A transaction is a non-empty set of items: load_transactions skips blank lines.
TransactionValues == (SUBSET Items) \ {{}}

TransactionSeqs == UNION {[1..n -> TransactionValues] : n \in 0..MaxTx}

\* The values the module globals MIN_SUPPORT and TOP_K are set to.  The source
\* sets 100 and 5; the pipeline is run under every value of these ranges,
\* 0 and -1 included, since nothing in the source restricts them.
MinSupportValues == 0..MaxMinSupport

TopKValues == (0 - 1)..MaxTopK

VARIABLES transactions, MIN_SUPPORT, TOP_K, pc, item_sup, L1, pair_sup, L2, C3,
          triple_sup, L3, scan_idx, d_rules, e_rules

vars == <<transactions, MIN_SUPPORT, TOP_K, pc, item_sup, L1, pair_sup, L2, C3,
          triple_sup, L3, scan_idx, d_rules, e_rules>>

---------------------------------------------------------------------------
\* Python built-ins and containers.

\* defaultdict(int)()
EmptyDict == [k \in {} |-> 0]

\* defaultdict.__getitem__: a missing key is inserted with int() = 0.
Touch(m, k) == IF k \in DOMAIN m THEN m ELSE m @@ (k :> 0)

\* Mutant: m[k] = 1 in place of m[k] += 1.
IncEach_assign(m, K) ==
    [k \in DOMAIN m \cup K |-> IF k \in K THEN 1 ELSE m[k]]

\* m[k] += 1 for every key k of the set K.
IncEach(m, K) ==
    [k \in DOMAIN m \cup K |->
        (IF k \in DOMAIN m THEN m[k] ELSE 0) + (IF k \in K THEN 1 ELSE 0)]

RECURSIVE sorted(_)
\* sorted(S): the ascending list of the elements of S.
sorted(S) ==
    IF S = {} THEN <<>>
    ELSE LET m == CHOOSE x \in S : \A y \in S : x <= y
         IN  <<m>> \o sorted(S \ {m})

\* itertools.combinations(s, 2) and (s, 3): positions in increasing order.
combinations2(s) ==
    {<<s[p[1]], s[p[2]]>> : p \in {q \in (1..Len(s)) \X (1..Len(s)) : q[1] < q[2]}}

combinations3(s) ==
    {<<s[p[1]], s[p[2]], s[p[3]]>> :
        p \in {q \in (1..Len(s)) \X (1..Len(s)) \X (1..Len(s)) :
                  q[1] < q[2] /\ q[2] < q[3]}}

\* Mutant: c > MIN_SUPPORT.
Frequent_strict(c, min_support) == c > min_support

\* c >= MIN_SUPPORT
Frequent(c, min_support) == c >= min_support

Range(s) == {s[i] : i \in 1..Len(s)}

\* Mutant: s[:k - 1].
Slice_short(s, k) ==
    LET n == Len(s)
        j == k - 1
        stop == IF j < 0 THEN (IF n + j > 0 THEN n + j ELSE 0)
                ELSE (IF j < n THEN j ELSE n)
    IN  SubSeq(s, 1, stop)

\* s[:k]
Slice(s, k) ==
    LET n == Len(s)
        stop == IF k < 0 THEN (IF n + k > 0 THEN n + k ELSE 0)
                ELSE (IF k < n THEN k ELSE n)
    IN  SubSeq(s, 1, stop)

RECURSIVE GCD(_, _)
GCD(a, b) == IF b = 0 THEN a ELSE GCD(b, a % b)

\* Mutant: d / n.
Ratio_swapped(n, d) == LET g == GCD(d, n) IN <<d \div g, n \div g>>

\* n / d for d > 0, as the fraction in lowest terms.
Ratio(n, d) == LET g == GCD(n, d) IN <<n \div g, d \div g>>

\* c1 < c2 on confidences.
ConfLess(c1, c2) == c1[1] * c2[2] < c2[1] * c1[2]

\* list.sort(key=...) is stable: x goes before the first element whose key is
\* greater than x's, behind every element whose key is equal.
\* `later` holds the positions of those elements.
InsertBy(s, x, later) ==
    LET p == IF later = {} THEN Len(s) + 1
             ELSE CHOOSE i \in later : \A j \in later : i <= j
    IN  SubSeq(s, 1, p - 1) \o <<x>> \o SubSeq(s, p, Len(s))

RECURSIVE Orders(_)
\* The orders in which iterating over the set S can yield its elements.
Orders(S) ==
    IF S = {} THEN {<<>>}
    ELSE UNION {{<<x>> \o o : o \in Orders(S \ {x})} : x \in S}

---------------------------------------------------------------------------
\* apriori_L1

\* for x in t: item_sup[x] += 1
item_scan(acc, t) == IncEach(acc, t)

RECURSIVE count_items(_, _)
\* for t in transactions: ...
count_items(acc, T) ==
    IF T = <<>> THEN acc ELSE count_items(item_scan(acc, Head(T)), Tail(T))

frequent_items(isup, min_support) ==
    sorted({x \in DOMAIN isup : Frequent(isup[x], min_support)})

\* apriori_L2

candidates_C2(l1) == combinations2(l1)

\* One transaction of the pair scan.
pair_scan(acc, t, l1) ==
    LET L1_set == Range(l1)
        ft == sorted({x \in t : x \in L1_set})
    IN  IncEach(acc, {p \in combinations2(ft) : p \in candidates_C2(l1)})

RECURSIVE count_pairs(_, _, _)
count_pairs(acc, T, l1) ==
    IF T = <<>> THEN acc ELSE count_pairs(pair_scan(acc, Head(T), l1), Tail(T), l1)

frequent_keys(sup, min_support) ==
    {k \in DOMAIN sup : Frequent(sup[k], min_support)}

\* apriori_C3_from_L2

by_first(l2) == [a \in {p[1] : p \in l2} |-> {q[2] : q \in {r \in l2 : r[1] = a}}]

\* Mutant: the join without the prune.
prune_keeps_all(a, b, c, l2) == TRUE

\* prune: all pairs must be frequent
prune_keeps(a, b, c, l2) == <<a, b>> \in l2 /\ <<a, c>> \in l2 /\ <<b, c>> \in l2

join_C3(l2) ==
    LET bf == by_first(l2)
    IN  UNION {{<<a, p[1], p[2]>> :
                   p \in {q \in combinations2(sorted(bf[a])) :
                             prune_keeps(a, q[1], q[2], l2)}} : a \in DOMAIN bf}

\* apriori_L3

\* Mutant: no early return.
skips_scan_never(c3) == FALSE

\* if not C3: return triple_sup, set()
skips_scan(c3) == c3 = {}

\* Mutant: triple_sup[tri] = 1 in place of += 1.
triple_scan_assign(acc, t, c3) ==
    LET K == {tri \in combinations3(sorted(t)) : tri \in c3}
    IN  [k \in DOMAIN acc \cup K |-> IF k \in K THEN 1 ELSE acc[k]]

\* One transaction of the triple scan.
triple_scan(acc, t, c3) ==
    IncEach(acc, {tri \in combinations3(sorted(t)) : tri \in c3})

RECURSIVE count_triples(_, _, _)
count_triples(acc, T, c3) ==
    IF T = <<>> THEN acc
    ELSE count_triples(triple_scan(acc, Head(T), c3), Tail(T), c3)

---------------------------------------------------------------------------
\* top5_part_d.  A rule is the tuple (conf, lhs, rhs, sup_xy).

\* Mutant: key=lambda r: (-r[0], r[1]).
key_less_d_no_rhs(r, s) ==
    \/ ConfLess(s[1], r[1])
    \/ r[1] = s[1] /\ r[2] < s[2]

\* key=lambda r: (-r[0], r[1], r[2])
key_less_d(r, s) ==
    \/ ConfLess(s[1], r[1])
    \/ r[1] = s[1] /\ r[2] < s[2]
    \/ r[1] = s[1] /\ r[2] = s[2] /\ r[3] < s[3]

RECURSIVE sort_d(_)
sort_d(rules) ==
    IF rules = <<>> THEN <<>>
    ELSE LET done == sort_d(SubSeq(rules, 1, Len(rules) - 1))
             x == rules[Len(rules)]
         IN  InsertBy(done, x, {i \in 1..Len(done) : key_less_d(x, done[i])})

\* Mutant: pair_sup[(b, a)].
pair_key_reversed(a, b) == <<b, a>>

\* The key of pair_sup read for the pair (a, b).
pair_key(a, b) == <<a, b>>

RECURSIVE rules_d(_, _, _, _)
\* The loop over L2 in the iteration order `order`: the two rules of each pair
\* are appended; a zero denominator raises ZeroDivisionError.
rules_d(order, isup, psup, rules) ==
    IF order = <<>>
    THEN [raised |-> FALSE, rules |-> rules, item_sup |-> isup, pair_sup |-> psup]
    ELSE LET a == Head(order)[1]
             b == Head(order)[2]
             psup1 == Touch(psup, pair_key(a, b))
             sup_ab == psup1[pair_key(a, b)]
             isup1 == Touch(isup, a)
             isup2 == Touch(isup1, b)
         IN  IF isup1[a] = 0
             THEN [raised |-> TRUE, rules |-> rules, item_sup |-> isup1,
                   pair_sup |-> psup1]
             ELSE IF isup2[b] = 0
             THEN [raised |-> TRUE,
                   rules |-> Append(rules, <<Ratio(sup_ab, isup1[a]), a, b, sup_ab>>),
                   item_sup |-> isup2, pair_sup |-> psup1]
             ELSE rules_d(Tail(order), isup2, psup1,
                          rules \o << <<Ratio(sup_ab, isup2[a]), a, b, sup_ab>>,
                                      <<Ratio(sup_ab, isup2[b]), b, a, sup_ab>> >>)

\* top5_part_e.  A rule is the tuple (conf, (lhs1, lhs2), rhs, sup_xyz).

\* key=lambda r: (-r[0], r[1][0], r[1][1], r[2])
key_less_e(r, s) ==
    \/ ConfLess(s[1], r[1])
    \/ r[1] = s[1] /\ r[2][1] < s[2][1]
    \/ r[1] = s[1] /\ r[2][1] = s[2][1] /\ r[2][2] < s[2][2]
    \/ r[1] = s[1] /\ r[2] = s[2] /\ r[3] < s[3]

RECURSIVE sort_e(_)
sort_e(rules) ==
    IF rules = <<>> THEN <<>>
    ELSE LET done == sort_e(SubSeq(rules, 1, Len(rules) - 1))
             x == rules[Len(rules)]
         IN  InsertBy(done, x, {i \in 1..Len(done) : key_less_e(x, done[i])})

RECURSIVE rules_e(_, _, _, _)
\* The loop over L3 in the iteration order `order`.
rules_e(order, psup, tsup, rules) ==
    IF order = <<>>
    THEN [raised |-> FALSE, rules |-> rules, pair_sup |-> psup, triple_sup |-> tsup]
    ELSE LET x == Head(order)[1]
             y == Head(order)[2]
             z == Head(order)[3]
             tsup1 == Touch(tsup, <<x, y, z>>)
             sup_xyz == tsup1[<<x, y, z>>]
             psup1 == Touch(psup, <<x, y>>)
             psup2 == Touch(psup1, <<x, z>>)
             psup3 == Touch(psup2, <<y, z>>)
             r1 == <<Ratio(sup_xyz, psup3[<<x, y>>]), <<x, y>>, z, sup_xyz>>
             r2 == <<Ratio(sup_xyz, psup3[<<x, z>>]), <<x, z>>, y, sup_xyz>>
             r3 == <<Ratio(sup_xyz, psup3[<<y, z>>]), <<y, z>>, x, sup_xyz>>
         IN  IF psup1[<<x, y>>] = 0
             THEN [raised |-> TRUE, rules |-> rules, pair_sup |-> psup1,
                   triple_sup |-> tsup1]
             ELSE IF psup2[<<x, z>>] = 0
             THEN [raised |-> TRUE, rules |-> Append(rules, r1), pair_sup |-> psup2,
                   triple_sup |-> tsup1]
             ELSE IF psup3[<<y, z>>] = 0
             THEN [raised |-> TRUE, rules |-> rules \o <<r1, r2>>,
                   pair_sup |-> psup3, triple_sup |-> tsup1]
             ELSE rules_e(Tail(order), psup3, tsup1, rules \o <<r1, r2, r3>>)

---------------------------------------------------------------------------
\* The run of main().  pc names the call that comes next; "raised" is a run
\* ended by an exception.

Init ==
    /\ transactions \in TransactionSeqs
    /\ MIN_SUPPORT \in MinSupportValues
    /\ TOP_K \in TopKValues
    /\ pc = "apriori_L1"
    /\ item_sup = EmptyDict
    /\ L1 = <<>>
    /\ pair_sup = EmptyDict
    /\ L2 = {}
    /\ C3 = {}
    /\ triple_sup = EmptyDict
    /\ L3 = {}
    /\ scan_idx = 0
    /\ d_rules = <<>>
    /\ e_rules = <<>>

apriori_L1 ==
    /\ pc = "apriori_L1"
    /\ item_sup' = count_items(EmptyDict, transactions)
    /\ L1' = frequent_items(item_sup', MIN_SUPPORT)
    /\ pc' = "apriori_L2"
    /\ UNCHANGED <<transactions, MIN_SUPPORT, TOP_K, pair_sup, L2, C3, triple_sup,
                   L3, scan_idx, d_rules, e_rules>>

apriori_L2 ==
    /\ pc = "apriori_L2"
    /\ pair_sup' = count_pairs(EmptyDict, transactions, L1)
    /\ L2' = frequent_keys(pair_sup', MIN_SUPPORT)
    /\ pc' = "apriori_C3_from_L2"
    /\ UNCHANGED <<transactions, MIN_SUPPORT, TOP_K, item_sup, L1, C3, triple_sup,
                   L3, scan_idx, d_rules, e_rules>>

apriori_C3_from_L2 ==
    /\ pc = "apriori_C3_from_L2"
    /\ C3' = join_C3(L2)
    /\ pc' = "apriori_L3"
    /\ UNCHANGED <<transactions, MIN_SUPPORT, TOP_K, item_sup, L1, pair_sup, L2,
                   triple_sup, L3, scan_idx, d_rules, e_rules>>

\* Entry of apriori_L3: the empty-C3 return, or the start of the scan.
apriori_L3 ==
    /\ pc = "apriori_L3"
    /\ triple_sup' = EmptyDict
    /\ IF skips_scan(C3)
       THEN /\ L3' = {}
            /\ pc' = "top5_part_d"
            /\ UNCHANGED scan_idx
       ELSE /\ pc' = "apriori_L3_scan"
            /\ scan_idx' = 1
            /\ UNCHANGED L3
    /\ UNCHANGED <<transactions, MIN_SUPPORT, TOP_K, item_sup, L1, pair_sup, L2, C3,
                   d_rules, e_rules>>

\* One iteration of `for t in transactions` in apriori_L3.
apriori_L3_scan ==
    /\ pc = "apriori_L3_scan"
    /\ scan_idx <= Len(transactions)
    /\ triple_sup' = triple_scan(triple_sup, transactions[scan_idx], C3)
    /\ scan_idx' = scan_idx + 1
    /\ UNCHANGED <<transactions, MIN_SUPPORT, TOP_K, pc, item_sup, L1, pair_sup, L2,
                   C3, L3, d_rules, e_rules>>

\* The end of the scan: L3 is filtered out of triple_sup.
apriori_L3_return ==
    /\ pc = "apriori_L3_scan"
    /\ scan_idx > Len(transactions)
    /\ L3' = frequent_keys(triple_sup, MIN_SUPPORT)
    /\ pc' = "top5_part_d"
    /\ UNCHANGED <<transactions, MIN_SUPPORT, TOP_K, item_sup, L1, pair_sup, L2, C3,
                   triple_sup, scan_idx, d_rules, e_rules>>

top5_part_d ==
    /\ pc = "top5_part_d"
    /\ \E order \in Orders(L2) :
        LET run == rules_d(order, item_sup, pair_sup, <<>>)
        IN  /\ item_sup' = run.item_sup
            /\ pair_sup' = run.pair_sup
            /\ IF run.raised
               THEN pc' = "raised" /\ UNCHANGED d_rules
               ELSE pc' = "top5_part_e" /\ d_rules' = Slice(sort_d(run.rules), TOP_K)
    /\ UNCHANGED <<transactions, MIN_SUPPORT, TOP_K, L1, L2, C3, triple_sup, L3,
                   scan_idx, e_rules>>

top5_part_e ==
    /\ pc = "top5_part_e"
    /\ \E order \in Orders(L3) :
        LET run == rules_e(order, pair_sup, triple_sup, <<>>)
        IN  /\ pair_sup' = run.pair_sup
            /\ triple_sup' = run.triple_sup
            /\ IF run.raised
               THEN pc' = "raised" /\ UNCHANGED e_rules
               ELSE pc' = "done" /\ e_rules' = Slice(sort_e(run.rules), TOP_K)
    /\ UNCHANGED <<transactions, MIN_SUPPORT, TOP_K, item_sup, L1, L2, C3, L3,
                   scan_idx, d_rules>>

Next ==
    \/ apriori_L1
    \/ apriori_L2
    \/ apriori_C3_from_L2
    \/ apriori_L3
    \/ apriori_L3_scan
    \/ apriori_L3_return
    \/ top5_part_d
    \/ top5_part_e

Spec == Init /\ [][Next]_vars

\* The fixture of the scenario, with A, B, C as the items 1, 2, 3.
Scenario == <<{1, 2, 3}, {1, 2}, {1, 3}, {2, 3}, {1, 2, 3}>>

ScenarioInit ==
    /\ transactions = Scenario
    /\ MIN_SUPPORT \in MinSupportValues
    /\ TOP_K \in TopKValues
    /\ pc = "apriori_L1"
    /\ item_sup = EmptyDict
    /\ L1 = <<>>
    /\ pair_sup = EmptyDict
    /\ L2 = {}
    /\ C3 = {}
    /\ triple_sup = EmptyDict
    /\ L3 = {}
    /\ scan_idx = 0
    /\ d_rules = <<>>
    /\ e_rules = <<>>

ScenarioSpec == ScenarioInit /\ [][Next]_vars

---------------------------------------------------------------------------
\* What the properties are stated with: supports recomputed by direct scan.

\* The number of transactions that contain every item of the set X.
Support(X) == Cardinality({i \in 1..Len(transactions) : X \subseteq transactions[i]})

\* All three levels are computed.
Mined == pc \in {"top5_part_d", "top5_part_e", "done"}

Ascending(s) == \A i \in 1..Len(s) : \A j \in 1..Len(s) : i < j => s[i] < s[j]

Pairs == {p \in Items \X Items : p[1] < p[2]}

Triples == {t \in Items \X Items \X Items : t[1] < t[2] /\ t[2] < t[3]}

Min(a, b) == IF a < b THEN a ELSE b

\* The key-wise sum of two count mappings.
MergeBySum(m1, m2) ==
    [k \in DOMAIN m1 \cup DOMAIN m2 |->
        (IF k \in DOMAIN m1 THEN m1[k] ELSE 0) + (IF k \in DOMAIN m2 THEN m2[k] ELSE 0)]

\* The sequence T in the order given by the permutation f of its positions.
Permuted(T, f) == [i \in 1..Len(T) |-> T[f[i]]]

Shuffles(T) == {Permuted(T, f) : f \in Permutations(1..Len(T))}

\* Tuple p comes before tuple q (of the same length) lexicographically.
LexLess(p, q) ==
    \E i \in 1..Len(p) : p[i] < q[i] /\ \A j \in 1..(i - 1) : p[j] = q[j]

RECURSIVE InLexOrder(_)
\* The tuples of the set S in ascending lexicographic order.
InLexOrder(S) ==
    IF S = {} THEN <<>>
    ELSE LET m == CHOOSE x \in S : \A y \in S : x = y \/ LexLess(x, y)
         IN  <<m>> \o InLexOrder(S \ {m})

\* The fraction c equals n / d.
IsRatio(c, n, d) == c[1] * d = n * c[2]

\* C1: for MIN_SUPPORT >= 1 the pipeline's L1, L2 and L3 are exactly the
\* ascending 1-, 2- and 3-itemsets contained in at least MIN_SUPPORT
\* transactions: none missing, none extra, the boundary count included.
C1_ExactFrequentSets ==
    (Mined /\ MIN_SUPPORT >= 1) =>
        /\ Ascending(L1)
        /\ Range(L1) = {x \in Items : Support({x}) >= MIN_SUPPORT}
        /\ L2 = {p \in Pairs : Support(Range(p)) >= MIN_SUPPORT}
        /\ L3 = {t \in Triples : Support(Range(t)) >= MIN_SUPPORT}

C1_Witness ==
    /\ pc = "done"
    /\ MIN_SUPPORT = 2
    /\ \E p \in L2 : Support(Range(p)) = MIN_SUPPORT
    /\ \E p \in Pairs : Support(Range(p)) = MIN_SUPPORT - 1

\* C2: after the pipeline every key of item_sup, pair_sup and triple_sup maps
\* to the number of transactions containing that itemset, and every candidate
\* of C2 or C3 that some transaction contains is a key.
C2_SupportConsistency ==
    Mined =>
        /\ \A x \in DOMAIN item_sup : item_sup[x] = Support({x})
        /\ \A p \in DOMAIN pair_sup : pair_sup[p] = Support(Range(p))
        /\ \A t \in DOMAIN triple_sup : triple_sup[t] = Support(Range(t))
        /\ \A p \in Pairs :
              (p[1] \in Range(L1) /\ p[2] \in Range(L1) /\ Support(Range(p)) >= 1)
                  => p \in DOMAIN pair_sup
        /\ \A t \in C3 : Support(Range(t)) >= 1 => t \in DOMAIN triple_sup

C2_Witness ==
    /\ pc = "done"
    /\ \E t \in DOMAIN triple_sup : triple_sup[t] = 2
    /\ \E p \in DOMAIN pair_sup : pair_sup[p] = 3

\* C3: under a configuration with MIN_SUPPORT <= 0 or TOP_K <= 0 no level is
\* ever computed: the run is still before apriori_L1.
C3_ConfigurationRejected ==
    (MIN_SUPPORT <= 0 \/ TOP_K <= 0) => pc = "apriori_L1"

\* C4: no stage ever raises; at the end of a run an empty level has left every
\* later output empty, the empty transaction sequence has left all of them
\* empty, and with C3 empty apriori_L3 never enters its scan.
C4_DegenerateNeverRaises ==
    /\ pc # "raised"
    /\ pc = "apriori_L3_scan" => C3 # {}
    /\ pc = "done" =>
        /\ L1 = <<>> => (L2 = {} /\ pair_sup = EmptyDict)
        /\ L2 = {} => (C3 = {} /\ d_rules = <<>>)
        /\ C3 = {} => (L3 = {} /\ triple_sup = EmptyDict /\ scan_idx = 0)
        /\ L3 = {} => e_rules = <<>>
        /\ transactions = <<>> =>
              (L1 = <<>> /\ L2 = {} /\ L3 = {} /\ d_rules = <<>> /\ e_rules = <<>>)

C4_Witness ==
    /\ pc = "done"
    /\ TOP_K >= 1
    /\ transactions # <<>>
    /\ L2 # {}
    /\ C3 = {}

\* Rule r ranks strictly before rule s: higher confidence, then LHS ascending,
\* then RHS ascending.
RanksBeforeD(r, s) ==
    \/ r[1][1] * s[1][2] > s[1][1] * r[1][2]
    \/ /\ r[1][1] * s[1][2] = s[1][1] * r[1][2]
       /\ \/ r[2] < s[2]
          \/ r[2] = s[2] /\ r[3] < s[3]

RanksBeforeE(r, s) ==
    \/ r[1][1] * s[1][2] > s[1][1] * r[1][2]
    \/ /\ r[1][1] * s[1][2] = s[1][1] * r[1][2]
       /\ \/ r[2][1] < s[2][1]
          \/ r[2][1] = s[2][1] /\ r[2][2] < s[2][2]
          \/ r[2] = s[2] /\ r[3] < s[3]

DirectedPairs == {<<p[1], p[2]>> : p \in L2} \cup {<<p[2], p[1]>> : p \in L2}

DirectedTriples ==
    {<<<<t[1], t[2]>>, t[3]>> : t \in L3} \cup {<<<<t[1], t[3]>>, t[2]>> : t \in L3}
        \cup {<<<<t[2], t[3]>>, t[1]>> : t \in L3}

\* C6: for TOP_K >= 1 top5_part_d returns min(TOP_K, 2 |L2|) rules and
\* top5_part_e min(TOP_K, 3 |L3|); every returned rule is a generated one with
\* its confidence and the support of its itemset, and no rule left out has a
\* strictly higher confidence than a returned one.
C6_TopK ==
    (pc = "done" /\ TOP_K >= 1) =>
        /\ Len(d_rules) = Min(TOP_K, 2 * Cardinality(L2))
        /\ Len(e_rules) = Min(TOP_K, 3 * Cardinality(L3))
        /\ \A i \in 1..Len(d_rules) :
              LET r == d_rules[i]
              IN  /\ <<r[2], r[3]>> \in DirectedPairs
                  /\ r[4] = Support({r[2], r[3]})
                  /\ IsRatio(r[1], Support({r[2], r[3]}), Support({r[2]}))
                  /\ \A g \in DirectedPairs :
                        (\A j \in 1..Len(d_rules) :
                            <<d_rules[j][2], d_rules[j][3]>> # g)
                            => Support({g[1], g[2]}) * r[1][2]
                                   <= r[1][1] * Support({g[1]})
        /\ \A i \in 1..Len(e_rules) :
              LET r == e_rules[i]
              IN  /\ <<r[2], r[3]>> \in DirectedTriples
                  /\ r[4] = Support(Range(r[2]) \cup {r[3]})
                  /\ IsRatio(r[1], Support(Range(r[2]) \cup {r[3]}),
                             Support(Range(r[2])))
                  /\ \A g \in DirectedTriples :
                        (\A j \in 1..Len(e_rules) :
                            <<e_rules[j][2], e_rules[j][3]>> # g)
                            => Support(Range(g[1]) \cup {g[2]}) * r[1][2]
                                   <= r[1][1] * Support(Range(g[1]))

C6_Witness ==
    /\ pc = "done"
    /\ TOP_K >= 1
    /\ Len(d_rules) = TOP_K
    /\ TOP_K < 2 * Cardinality(L2)
    /\ Len(e_rules) = TOP_K
    /\ TOP_K < 3 * Cardinality(L3)

\* C7: every pair of L2 is ascending with both items in L1, and every triple
\* of C3 and of L3 is ascending with its three pairs in L2.
C7_AntiMonotoneCanonical ==
    /\ \A p \in L2 : p[1] < p[2] /\ p[1] \in Range(L1) /\ p[2] \in Range(L1)
    /\ \A t \in C3 \cup L3 :
          /\ t[1] < t[2] /\ t[2] < t[3]
          /\ <<t[1], t[2]>> \in L2
          /\ <<t[1], t[3]>> \in L2
          /\ <<t[2], t[3]>> \in L2

C7_Witness ==
    /\ pc = "done"
    /\ L3 # {}
    /\ Len(L1) = NumItems

\* C8: on the fixture with MIN_SUPPORT = 2 the pipeline gives L1 = [A, B, C],
\* L2 = the three pairs, each with support 3, L3 = {(A, B, C)} with support 2,
\* and top5_part_e returns (A, B) => C with confidence 2/3 and support 2.
C8_Scenario ==
    (pc = "done" /\ transactions = Scenario /\ MIN_SUPPORT = 2 /\ TOP_K >= 1) =>
        /\ L1 = <<1, 2, 3>>
        /\ L2 = {<<1, 2>>, <<1, 3>>, <<2, 3>>}
        /\ \A p \in L2 : pair_sup[p] = 3
        /\ L3 = {<<1, 2, 3>>}
        /\ triple_sup[<<1, 2, 3>>] = 2
        /\ \E i \in 1..Len(e_rules) : e_rules[i] = <<<<2, 3>>, <<1, 2>>, 3, 2>>

C8_Witness ==
    /\ pc = "done"
    /\ transactions = Scenario
    /\ MIN_SUPPORT = 2
    /\ TOP_K = 1
    /\ Len(e_rules) = 1

\* C9: when the rule generators run on the pipeline's outputs every
\* denominator is a present key, at least 1 and at least the numerator; no
\* division by zero is raised, every confidence is in (0, 1], and no support
\* table holds a key inserted with the default 0.
C9_DenominatorsPresent ==
    /\ pc # "raised"
    /\ Mined =>
        /\ \A p \in L2 :
              /\ p \in DOMAIN pair_sup
              /\ \A x \in Range(p) :
                    /\ x \in DOMAIN item_sup
                    /\ item_sup[x] >= 1
                    /\ item_sup[x] >= pair_sup[p]
        /\ \A t \in L3 :
              /\ t \in DOMAIN triple_sup
              /\ \A q \in {<<t[1], t[2]>>, <<t[1], t[3]>>, <<t[2], t[3]>>} :
                    /\ q \in DOMAIN pair_sup
                    /\ pair_sup[q] >= 1
                    /\ pair_sup[q] >= triple_sup[t]
        /\ \A i \in 1..Len(d_rules) :
              0 < d_rules[i][1][1] /\ d_rules[i][1][1] <= d_rules[i][1][2]
        /\ \A i \in 1..Len(e_rules) :
              0 < e_rules[i][1][1] /\ e_rules[i][1][1] <= e_rules[i][1][2]
        /\ \A x \in DOMAIN item_sup : item_sup[x] # 0
        /\ \A p \in DOMAIN pair_sup : pair_sup[p] # 0
        /\ \A t \in DOMAIN triple_sup : triple_sup[t] # 0
        /\ item_sup = count_items(EmptyDict, transactions)
        /\ pair_sup = count_pairs(EmptyDict, transactions, L1)

C9_Witness ==
    /\ pc = "done"
    /\ MIN_SUPPORT = 0
    /\ d_rules # <<>>
    /\ e_rules # <<>>
    /\ \E i \in 1..Len(d_rules) : d_rules[i][1] # <<1, 1>>

\* C10: for every split of the transactions into a first and a second shard
\* the item, pair (basis L1) and triple (basis C3) counts of the whole scan
\* are the key-wise sums of the shards' counts, and every permutation of the
\* transactions gives the same counts.
C10_ShardedCounting ==
    Mined =>
        /\ \A k \in 0..Len(transactions) :
              LET T1 == SubSeq(transactions, 1, k)
                  T2 == SubSeq(transactions, k + 1, Len(transactions))
              IN  /\ item_sup = MergeBySum(count_items(EmptyDict, T1),
                                           count_items(EmptyDict, T2))
                  /\ pair_sup = MergeBySum(count_pairs(EmptyDict, T1, L1),
                                           count_pairs(EmptyDict, T2, L1))
                  /\ triple_sup = MergeBySum(count_triples(EmptyDict, T1, C3),
                                             count_triples(EmptyDict, T2, C3))
        /\ \A T \in Shuffles(transactions) :
              /\ item_sup = count_items(EmptyDict, T)
              /\ pair_sup = count_pairs(EmptyDict, T, L1)
              /\ triple_sup = count_triples(EmptyDict, T, C3)

C10_Witness ==
    /\ pc = "done"
    /\ Len(transactions) = MaxTx
    /\ transactions[1] # transactions[2]
    /\ \E t \in DOMAIN triple_sup : triple_sup[t] >= 2

============================================================================
